---------------------------- MODULE Spec2Model ----------------------------
(***************************************************************************)
(* A model of src/src/favicon.ts: the favicon discovery and selection,     *)
(* the badge text, and the session state (current) with its asynchronous   *)
(* renders (image loads) against the link elements of the document head.   *)
(*                                                                         *)
(* Attribute strings are sequences of one-character strings, so that       *)
(* split, indexOf, match and parseInt are computed as the code computes    *)
(* them.  An absent attribute (getAttribute returning null) is Absent.     *)
(*                                                                         *)
(* Link elements have identities: the elements of the page as loaded are   *)
(* 1 .. Len(page), the k-th element created by setFavicon is -k, and the   *)
(* null reference is 0.                                                    *)
(***************************************************************************)
EXTENDS Integers, Sequences, FiniteSets, Bags, TLC

VARIABLES
    page,       \* the attributes of the page's own link elements (never mutated)
    head,       \* the link elements of document.head, in document order
    current,    \* current: favicons, bestFavicon, value, options
    canvas,     \* whether the module-level canvas holds an element
    context,    \* whether the module-level context holds a 2D context
    has2d,      \* environment: whether canvas.getContext('2d') yields a context
    pending,    \* image loads issued by drawFavicon and not yet completed
    badges,     \* the images of the elements created by setFavicon, in creation order
    last,       \* what the last operation was and what it did
    since,      \* what has happened since the last call of clear
    probe       \* position and result of the pure-function specifications

vars == <<page, head, current, canvas, context, has2d, pending, badges, last, since, probe>>

-----------------------------------------------------------------------------
(* Bounds of the model *)

\* the page declares at most this many link elements (session specification)
MaxLinks == 2
\* at most this many renders are started and not yet failed
MaxRenders == 2
\* the candidate lists of the selection specification have at most this length
MaxCands == 3
\* the badge values of the text specification range over -MaxValue .. 100 + MaxValue
MaxValue == 30

-----------------------------------------------------------------------------
(* Strings *)

Absent == <<"<null>">>
null == 0
nullList == <<0>>

Falsy(s) == s = Absent \/ s = <<>>

S_any == <<"a", "n", "y">>
S_icon == <<"i", "c", "o", "n">>
S_shortcut_icon == <<"s", "h", "o", "r", "t", "c", "u", "t", " ", "i", "c", "o", "n">>
S_icon_favicon == <<"i", "c", "o", "n", " ", "f", "a", "v", "i", "c", "o", "n">>
S_touch_icon == <<"a", "p", "p", "l", "e", "-", "t", "o", "u", "c", "h", "-", "i", "c", "o", "n">>
S_stylesheet == <<"s", "t", "y", "l", "e", "s", "h", "e", "e", "t">>
S_a_png == <<"a", ".", "p", "n", "g">>
S_b_png == <<"b", ".", "p", "n", "g">>
S_data_png == <<"d", "a", "t", "a", ":", "x">>
S_data_url == <<"d", "a", "t", "a", ":", "i", "m", "a", "g", "e", "/", "p", "n", "g">>
S_16x16 == <<"1", "6", "x", "1", "6">>
S_32x32 == <<"3", "2", "x", "3", "2">>
S_32 == <<"3", "2">>
S_0x0 == <<"0", "x", "0">>
S_x16 == <<"x", "1", "6">>
S_neg8x8 == <<"-", "8", "x", "8">>
S_sp48x48 == <<" ", "4", "8", "x", "4", "8">>
S_auto == <<"a", "u", "t", "o">>
S_bang == <<"!">>
S_query == <<"?">>

\* String.prototype.split with a one-character separator
RECURSIVE SplitFrom(_, _, _)
SplitFrom(s, sep, acc) ==
    IF s = <<>> THEN <<acc>>
    ELSE IF Head(s) = sep THEN <<acc>> \o SplitFrom(Tail(s), sep, <<>>)
    ELSE SplitFrom(Tail(s), sep, Append(acc, Head(s)))

split(s, sep) == SplitFrom(s, sep, <<>>)

\* Array.prototype.indexOf(x) === -1
NotInArray(arr, x) == \A i \in 1..Len(arr) : arr[i] # x

Digits == <<"0", "1", "2", "3", "4", "5", "6", "7", "8", "9">>
IsDigit(c) == \E d \in 1..10 : Digits[d] = c
DigitVal(c) == (CHOOSE d \in 1..10 : Digits[d] = c) - 1

RECURSIVE SkipSpace(_)
SkipSpace(s) == IF s # <<>> /\ Head(s) = " " THEN SkipSpace(Tail(s)) ELSE s

RECURSIVE ReadDigits(_, _)
ReadDigits(s, acc) ==
    IF s # <<>> /\ IsDigit(Head(s)) THEN ReadDigits(Tail(s), 10 * acc + DigitVal(Head(s)))
    ELSE acc

\* parseInt(s, 10): leading white space, an optional sign, then the longest
\* run of decimal digits; NaN when there is no digit
parseInt(s) ==
    LET t == SkipSpace(s)
        neg == t # <<>> /\ Head(t) = "-"
        u == IF t # <<>> /\ Head(t) \in {"-", "+"} THEN Tail(t) ELSE t
    IN  IF u = <<>> \/ ~IsDigit(Head(u)) THEN [nan |-> TRUE, n |-> 0]
        ELSE [nan |-> FALSE, n |-> IF neg THEN 0 - ReadDigits(u, 0) ELSE ReadDigits(u, 0)]

\* String(value) of a positive integer
RECURSIVE String(_)
String(n) == IF n < 10 THEN <<Digits[n + 1]>> ELSE Append(String(n \div 10), Digits[(n % 10) + 1])

\* href.match(/^data/)
MatchesData(s) == Len(s) >= 4 /\ SubSeq(s, 1, 4) = <<"d", "a", "t", "a">>

-----------------------------------------------------------------------------
(* The link elements *)

IsBadge(id) == id < 0

\* the href, rel and sizes attributes of an element; setFavicon's element has
\* rel 'icon favicon', a data URL as href and no sizes attribute
Attr(id) ==
    IF IsBadge(id) THEN [href |-> S_data_url, rel |-> S_icon_favicon, sizes |-> Absent]
    ELSE page[id]

Qualifies(id) ==
    LET href == Attr(id).href
        rel == Attr(id).rel
    IN  /\ ~Falsy(href)
        /\ ~Falsy(rel)
        /\ ~NotInArray(split(rel, " "), S_icon)

RECURSIVE Filter(_)
Filter(links) ==
    IF links = <<>> THEN <<>>
    ELSE IF Qualifies(Head(links)) THEN <<Head(links)>> \o Filter(Tail(links))
    ELSE Filter(Tail(links))

\* Get all favicons of the page
getFavicons == Filter(head)

\* mutant of isAny: the token is compared in the wrong case
isAnyUpperCase(sizes) == sizes = <<"A", "N", "Y">>

\* sizes === 'any'
isAny(sizes) == sizes = S_any

\* mutant of nothingFound: every favicon without a usable size replaces the one found
alwaysReplace(bestFavicon) == TRUE

\* !bestFavicon: a favicon without a usable size is taken only if nothing was found yet
nothingFound(bestFavicon) == bestFavicon = null

\* size > bestSize
isLarger(size, bestSize) == size > bestSize

RECURSIVE BestFrom(_, _, _, _)
BestFrom(favicons, i, bestFavicon, bestSize) ==
    IF i > Len(favicons) THEN bestFavicon
    ELSE LET favicon == favicons[i]
             href == Attr(favicon).href
             rel == Attr(favicon).rel
             sizes == Attr(favicon).sizes
             size == parseInt(split(sizes, "x")[1])
         IN  IF Falsy(href) THEN BestFrom(favicons, i + 1, bestFavicon, bestSize)
             ELSE IF Falsy(rel) \/ NotInArray(split(rel, " "), S_icon)
                 THEN BestFrom(favicons, i + 1, bestFavicon, bestSize)
             ELSE IF Falsy(sizes) THEN
                 IF nothingFound(bestFavicon) THEN BestFrom(favicons, i + 1, favicon, 0)
                 ELSE BestFrom(favicons, i + 1, bestFavicon, bestSize)
             ELSE IF isAny(sizes) THEN favicon
             ELSE IF size.nan THEN
                 IF nothingFound(bestFavicon) THEN BestFrom(favicons, i + 1, favicon, 0)
                 ELSE BestFrom(favicons, i + 1, bestFavicon, bestSize)
             ELSE IF isLarger(size.n, bestSize) THEN BestFrom(favicons, i + 1, favicon, size.n)
             ELSE BestFrom(favicons, i + 1, bestFavicon, bestSize)

\* Get the favicon with the best quality of the document
getBestFavicon == BestFrom(getFavicons, 1, null, 0)

-----------------------------------------------------------------------------
(* Values and options *)

Num(n) == [t |-> "number", n |-> n]
False == [t |-> "boolean", n |-> 0]
True == [t |-> "boolean", n |-> 1]
Text == [t |-> "string", n |-> 0]

\* typeof value === 'number' && value >= 0
isPositiveNumber(value) == value.t = "number" /\ value.n >= 0

defaultOptions == [backgroundColor |-> "#424242", color |-> "#ffffff", indicator |-> S_bang]

\* the keys of source overwrite those of target, the other keys of target stay
deepMerge(target, source) ==
    [k \in DOMAIN target |-> IF k \in DOMAIN source THEN source[k] ELSE target[k]]

\* mutant of finalValue: the limit of the decimal text is off by one
finalValueOffByOne(value, options) ==
    IF isPositiveNumber(value) THEN
        IF value.n = 0 THEN <<>>
        ELSE IF value.n <= 100 THEN String(value.n)
        ELSE <<"9", "9", "+">>
    ELSE options.indicator

\* the text of the bubble
finalValue(value, options) ==
    IF isPositiveNumber(value) THEN
        IF value.n = 0 THEN <<>>
        ELSE IF value.n < 100 THEN String(value.n)
        ELSE <<"9", "9", "+">>
    ELSE options.indicator

NoBubble == [text |-> <<>>, backgroundColor |-> "", color |-> ""]

\* Draws the bubble on the canvas: what is drawn over the image
drawBubble(value, options) ==
    IF Falsy(finalValue(value, options)) THEN NoBubble
    ELSE [text |-> finalValue(value, options),
          backgroundColor |-> options.backgroundColor,
          color |-> options.color]

-----------------------------------------------------------------------------
(* The session: isAvailable, set, clear and the image loads *)

Idle == [op |-> "none", ret |-> FALSE, scans |-> 0, created |-> FALSE, restored |-> FALSE]

\* since the last call of clear: whether a set call returned true, whether a load
\* completed and installed its image
NoSince == [set |-> FALSE, installed |-> FALSE]

NoProbe == [pc |-> "off", best |-> null, bubble |-> NoBubble]

\* isAvailable's lazy creation of the canvas and its context
createsCanvas == ~context
canvasAfter == IF ~context THEN TRUE ELSE canvas
contextAfter == IF ~context THEN has2d ELSE context

\* mutant of isAvailable: the best favicon is not looked for
isAvailableContextOnly == contextAfter

\* the value isAvailable returns
isAvailable == contextAfter /\ getBestFavicon # null

\* the calls of getBestFavicon that isAvailable makes (&& short-circuits)
availableScans == IF contextAfter THEN 1 ELSE 0

RECURSIVE RemoveAll(_, _)
RemoveAll(links, gone) ==
    IF links = <<>> THEN <<>>
    ELSE IF \E i \in 1..Len(gone) : gone[i] = Head(links) THEN RemoveAll(Tail(links), gone)
    ELSE <<Head(links)>> \o RemoveAll(Tail(links), gone)

\* parentNode.removeChild(favicon) for every favicon of getFavicons()
removeFavicons(links) == RemoveAll(links, Filter(links))

\* head.appendChild(el): an element already in the head moves to the end
appendChild(links, el) == Append(RemoveAll(links, <<el>>), el)

RECURSIVE appendAll(_, _)
appendAll(links, els) ==
    IF els = <<>> THEN links ELSE appendAll(appendChild(links, Head(els)), Tail(els))

\* mutant of restoreFavicons: the current favicons are not removed first
restoreOverCurrent(links, favicons) == appendAll(links, favicons)

\* Recreate old favicons: the head after clear has removed the current favicons
\* and appended the remembered ones
restoreFavicons(links, favicons) == appendAll(removeFavicons(links), favicons)

\* mutant of setFavicon: the new favicon is not appended
setFaviconRemovesOnly(links, url, newFavicon) ==
    IF Falsy(url) THEN links
    ELSE removeFavicons(links)

\* mutant of setFavicon: the previous favicons are not removed
setFaviconKeepsOld(links, url, newFavicon) ==
    IF Falsy(url) THEN links
    ELSE appendChild(links, newFavicon)

\* Update favicon: the head after setFavicon(url) has created the element newFavicon
setFavicon(links, url, newFavicon) ==
    IF Falsy(url) THEN links
    ELSE appendChild(removeFavicons(links), newFavicon)

\* mutant of rememberBest: the best favicon is selected again on every set
selectAgain == getBestFavicon

\* the favicon that set remembers
rememberBest == IF current.bestFavicon # null THEN current.bestFavicon ELSE getBestFavicon

\* mutant of rememberFavicons: the favicons are collected again on every set
collectAgain == getFavicons

\* the favicons that set remembers (an array, even an empty one, is truthy)
rememberFavicons == IF current.favicons # nullList THEN current.favicons ELSE getFavicons

\* mutant of drawFavicon: no load is issued while another one is pending
drawFaviconSingleFlight(value, bestFavicon) ==
    IF bestFavicon # null /\ pending = EmptyBag
    THEN SetToBag({[value |-> value, src |-> bestFavicon,
                     crossOrigin |-> ~MatchesData(Attr(bestFavicon).href)]})
    ELSE EmptyBag

\* Draw the favicon: the image load that drawFavicon issues
drawFavicon(value, bestFavicon) ==
    IF bestFavicon # null
    THEN SetToBag({[value |-> value, src |-> bestFavicon,
                     crossOrigin |-> ~MatchesData(Attr(bestFavicon).href)]})
    ELSE EmptyBag

\* mutant of drawnValue: the bubble shows the value of the latest set call
drawnCurrentValue(image) == current.value

\* the value onload draws: the one drawFavicon was called with
drawnValue(image) == image.value

\* mutant of drawnOptions: the bubble is drawn with the default options
drawnDefaultOptions == defaultOptions

\* the options onload draws with: the record set passed by reference, as it is
\* when the load completes
drawnOptions == current.options

\* mutant of forget: the best favicon stays remembered
forgetFaviconsOnly == [current EXCEPT !.favicons = nullList]

\* mutant of forget: the options are reset too
forgetAll == [current EXCEPT !.favicons = nullList, !.bestFavicon = null,
                             !.options = defaultOptions]

\* clear's reset of the remembered favicons
forget == [current EXCEPT !.favicons = nullList, !.bestFavicon = null]

IsAvailable ==
    /\ canvas' = canvasAfter
    /\ context' = contextAfter
    /\ last' = [Idle EXCEPT !.op = "isAvailable", !.ret = isAvailable,
                            !.scans = availableScans, !.created = createsCanvas]
    /\ UNCHANGED <<page, head, current, has2d, pending, badges, since, probe>>

set(value, options) ==
    /\ BagCardinality(pending) + Len(badges) < MaxRenders
    /\ canvas' = canvasAfter
    /\ context' = contextAfter
    /\ IF ~isAvailable
       THEN /\ current' = [current EXCEPT !.value = value,
                                          !.options = deepMerge(current.options, options)]
            /\ last' = [Idle EXCEPT !.op = "set", !.ret = FALSE,
                                    !.scans = availableScans, !.created = createsCanvas]
            /\ UNCHANGED <<pending, since>>
       ELSE /\ since' = [since EXCEPT !.set = TRUE]
            /\ current' = [value |-> value,
                           options |-> deepMerge(current.options, options),
                           bestFavicon |-> rememberBest,
                           favicons |-> rememberFavicons]
            /\ pending' = pending (+) drawFavicon(value, rememberBest)
            /\ last' = [Idle EXCEPT !.op = "set", !.ret = TRUE,
                                    !.scans = availableScans
                                              + (IF current.bestFavicon # null THEN 0 ELSE 1),
                                    !.created = createsCanvas]
    /\ UNCHANGED <<page, head, has2d, badges, probe>>

clear ==
    /\ canvas' = canvasAfter
    /\ context' = contextAfter
    /\ IF ~isAvailable
       THEN /\ last' = [Idle EXCEPT !.op = "clear", !.scans = availableScans,
                                    !.created = createsCanvas]
            /\ UNCHANGED <<head, current>>
       ELSE IF current.favicons # nullList
       THEN /\ head' = restoreFavicons(head, current.favicons)
            /\ current' = forget
            /\ last' = [Idle EXCEPT !.op = "clear", !.scans = availableScans,
                                    !.created = createsCanvas, !.restored = TRUE]
       ELSE /\ last' = [Idle EXCEPT !.op = "clear", !.scans = availableScans,
                                    !.created = createsCanvas]
            /\ UNCHANGED <<head, current>>
    /\ since' = NoSince
    /\ UNCHANGED <<page, has2d, pending, badges, probe>>

\* image.onload of a pending load: draw the image and the bubble, install the result
onload(image) ==
    /\ BagIn(image, pending)
    /\ pending' = pending (-) SetToBag({image})
    /\ IF ~canvas
       THEN /\ last' = [Idle EXCEPT !.op = "onload"]
            /\ UNCHANGED <<head, badges, since>>
       ELSE /\ badges' = Append(badges, [base |-> image.src,
                                         bubble |-> drawBubble(drawnValue(image), drawnOptions)])
            /\ head' = setFavicon(head, S_data_url, 0 - (Len(badges) + 1))
            /\ last' = [Idle EXCEPT !.op = "onload", !.ret = TRUE]
            /\ since' = [since EXCEPT !.installed = TRUE]
    /\ UNCHANGED <<page, current, canvas, context, has2d, probe>>

\* a pending load fails (no load event), or canvas.toDataURL() throws on a canvas
\* tainted by a cross-origin image: nothing is installed
loadFails(image) ==
    /\ BagIn(image, pending)
    /\ pending' = pending (-) SetToBag({image})
    /\ last' = [Idle EXCEPT !.op = "error"]
    /\ UNCHANGED <<page, head, current, canvas, context, has2d, badges, since, probe>>

-----------------------------------------------------------------------------
(* The inputs *)

Link(href, rel, sizes) == [href |-> href, rel |-> rel, sizes |-> sizes]

\* the link elements a page of the session specification declares
SessionLinks ==
    { Link(S_data_png, S_shortcut_icon, S_16x16),
      Link(S_a_png, S_icon, S_32x32),
      Link(S_a_png, S_stylesheet, Absent),
      Link(S_b_png, S_icon, S_0x0) }

SeqsUpTo(S, n) == UNION { [1..k -> S] : k \in 0..n }

\* the pages of the session specification: no link element is declared twice
SessionPages ==
    { p \in SeqsUpTo(SessionLinks, MaxLinks) :
          \A i, j \in 1..Len(p) : i # j => p[i] # p[j] }

SessionValues == { Num(5), False }

SessionOptions == << <<>>, [indicator |-> S_query] >>

Identity(n) == [i \in 1..n |-> i]

Init ==
    /\ page \in SessionPages
    /\ head = Identity(Len(page))
    /\ current = [favicons |-> nullList, bestFavicon |-> null, value |-> Num(0),
                  options |-> defaultOptions]
    /\ canvas = FALSE
    /\ context = FALSE
    /\ has2d \in BOOLEAN
    /\ pending = EmptyBag
    /\ badges = <<>>
    /\ last = Idle
    /\ since = NoSince
    /\ probe = NoProbe

Set == \E value \in SessionValues : \E o \in 1..Len(SessionOptions) : set(value, SessionOptions[o])

Clear == clear

Onload == \E image \in BagToSet(pending) : onload(image)

LoadFails == \E image \in BagToSet(pending) : loadFails(image)

Next == IsAvailable \/ Set \/ Clear \/ Onload \/ LoadFails

Spec == Init /\ [][Next]_vars

\* every image load completes: no load fails, and a pending load is delivered
NextLive == IsAvailable \/ Set \/ Clear \/ Onload

\* the pages of the fair specification: two icon links of which the second is the
\* best, and a page on which the feature is unavailable
LivePages ==
    { << Link(S_data_png, S_shortcut_icon, S_16x16), Link(S_a_png, S_icon, S_32x32) >>,
      << Link(S_a_png, S_stylesheet, Absent), Link(S_b_png, S_icon, S_0x0) >> }

InitLive ==
    /\ page \in LivePages
    /\ head = Identity(Len(page))
    /\ current = [favicons |-> nullList, bestFavicon |-> null, value |-> Num(0),
                  options |-> defaultOptions]
    /\ canvas = FALSE
    /\ context = FALSE
    /\ has2d \in BOOLEAN
    /\ pending = EmptyBag
    /\ badges = <<>>
    /\ last = Idle
    /\ since = NoSince
    /\ probe = NoProbe

SpecLive == InitLive /\ [][NextLive]_vars /\ WF_vars(Onload)

-----------------------------------------------------------------------------
(* The selection on its own: a list of link elements, then getBestFavicon *)

SelectSizes ==
    { Absent, <<>>, S_any, S_16x16, S_32x32, S_32, S_0x0, S_x16, S_auto, S_neg8x8, S_sp48x48 }

SelectLinks ==
    { Link(S_a_png, S_icon, z) : z \in SelectSizes }
    \cup { Link(S_b_png, S_shortcut_icon, S_32x32),
           Link(Absent, S_icon, S_any),
           Link(<<>>, S_icon, S_32x32),
           Link(S_a_png, Absent, S_any),
           Link(S_a_png, S_touch_icon, S_any) }

InitSelect ==
    /\ page \in SeqsUpTo(SelectLinks, MaxCands)
    /\ head = Identity(Len(page))
    /\ current = [favicons |-> nullList, bestFavicon |-> null, value |-> Num(0),
                  options |-> defaultOptions]
    /\ canvas = FALSE
    /\ context = FALSE
    /\ has2d = TRUE
    /\ pending = EmptyBag
    /\ badges = <<>>
    /\ last = Idle
    /\ since = NoSince
    /\ probe = [NoProbe EXCEPT !.pc = "input"]

SelectBest ==
    /\ probe.pc = "input"
    /\ probe' = [probe EXCEPT !.pc = "done", !.best = getBestFavicon]
    /\ UNCHANGED <<page, head, current, canvas, context, has2d, pending, badges, last, since>>

SpecSelect == InitSelect /\ [][SelectBest]_vars

-----------------------------------------------------------------------------
(* The badge text on its own: a value and an indicator, then drawBubble *)

BubbleValues == { Num(n) : n \in (0 - MaxValue)..(100 + MaxValue) } \cup { False, True, Text }

InitBubble ==
    /\ page = <<>>
    /\ head = <<>>
    /\ \E value \in BubbleValues : \E indicator \in { S_bang, S_query } :
           current = [favicons |-> nullList, bestFavicon |-> null, value |-> value,
                      options |-> [defaultOptions EXCEPT !.indicator = indicator]]
    /\ canvas = FALSE
    /\ context = FALSE
    /\ has2d = TRUE
    /\ pending = EmptyBag
    /\ badges = <<>>
    /\ last = Idle
    /\ since = NoSince
    /\ probe = [NoProbe EXCEPT !.pc = "input"]

DrawBubble ==
    /\ probe.pc = "input"
    /\ probe' = [probe EXCEPT !.pc = "done", !.bubble = drawBubble(current.value, current.options)]
    /\ UNCHANGED <<page, head, current, canvas, context, has2d, pending, badges, last, since>>

SpecBubble == InitBubble /\ [][DrawBubble]_vars

-----------------------------------------------------------------------------
(* The claims *)

\* the icon links of the page as loaded, in document order
OriginalIcons == Filter(Identity(Len(page)))

\* the link created by the latest install
NewestBadge == 0 - Len(badges)

\* C1: whenever a render completes and installs its image, the head holds exactly
\* one icon link, the link that install created
C1_OneIconAfterInstall ==
    (last.op = "onload" /\ last.ret) => getFavicons = <<NewestBadge>>

\* an install that replaced the two icon links of the page, and an install that
\* replaced an earlier badge after a further set call
C1_Witness ==
    /\ last.op = "onload" /\ last.ret
    /\ Len(badges) = 2
    /\ Len(OriginalIcons) = 2
    /\ current.favicons = OriginalIcons

\* C2: a clear that finds a snapshot leaves exactly the snapshotted elements as the
\* head's icon links, in snapshot order, and resets current.favicons and
\* current.bestFavicon
C2_ClearRestoresSnapshot ==
    [][(last'.op = "clear" /\ current.favicons # nullList)
        => /\ getFavicons' = current.favicons
           /\ current'.favicons = nullList
           /\ current'.bestFavicon = null]_vars

\* a clear that replaced an installed badge by the two snapshotted links
C2_Witness ==
    /\ last.op = "clear" /\ last.restored
    /\ Len(badges) >= 1
    /\ Len(getFavicons) = 2
    /\ current.favicons = nullList

\* C3: every snapshot the session holds is the page's original icon links, and when
\* no snapshot is held and no render is pending the head's icon links are the
\* original ones
C3_SnapshotIsOriginal ==
    /\ current.favicons # nullList => current.favicons = OriginalIcons
    /\ (current.favicons = nullList /\ pending = EmptyBag) => getFavicons = OriginalIcons

\* C4: a set call that finds the feature unavailable changes neither current nor
\* the head
C4_UnavailableSetNoEffect ==
    [][(last'.op = "set" /\ ~last'.ret) => (current' = current /\ head' = head)]_vars

\* the qualifying candidates have a usable numeric size
NumericSize(id) ==
    /\ ~Falsy(Attr(id).sizes)
    /\ Attr(id).sizes # S_any
    /\ ~parseInt(split(Attr(id).sizes, "x")[1]).nan

ParsedSize(id) == parseInt(split(Attr(id).sizes, "x")[1]).n

\* C5: when a qualifying candidate has sizes "any", the selection returns a
\* candidate with sizes "any"
C5_AnyWins ==
    (probe.pc = "done" /\ \E i \in 1..Len(getFavicons) : Attr(getFavicons[i]).sizes = S_any)
        => (probe.best # null /\ Attr(probe.best).sizes = S_any)

\* an "any" candidate that comes last, after a candidate with a numeric size
C5_Witness ==
    /\ probe.pc = "done"
    /\ Len(getFavicons) = 3
    /\ NumericSize(getFavicons[1])
    /\ Attr(getFavicons[3]).sizes = S_any
    /\ probe.best = getFavicons[3]

\* C6: when every qualifying candidate has a numeric size, the selection returns
\* the first candidate of the largest parsed size
C6_LargestNumericWins ==
    (probe.pc = "done" /\ getFavicons # <<>>
        /\ \A i \in 1..Len(getFavicons) : NumericSize(getFavicons[i]))
        => \E i \in 1..Len(getFavicons) :
              /\ probe.best = getFavicons[i]
              /\ \A j \in 1..Len(getFavicons) : ParsedSize(getFavicons[j]) <= ParsedSize(getFavicons[i])
              /\ \A j \in 1..(i - 1) : ParsedSize(getFavicons[j]) < ParsedSize(getFavicons[i])

\* C7: when no qualifying candidate has a usable size, the selection returns the
\* first qualifying candidate
C7_FirstWithoutSize ==
    (probe.pc = "done" /\ getFavicons # <<>>
        /\ \A i \in 1..Len(getFavicons) :
              ~NumericSize(getFavicons[i]) /\ Attr(getFavicons[i]).sizes # S_any)
        => probe.best = getFavicons[1]

\* two qualifying candidates behind a disqualified link, one without sizes and one
\* whose sizes do not parse
C7_Witness ==
    /\ probe.pc = "done"
    /\ Len(page) = 3
    /\ getFavicons = <<2, 3>>
    /\ Attr(2).sizes = S_auto
    /\ Attr(3).sizes = Absent
    /\ probe.best = 2

\* the text is the decimal numeral of n, without leading zero
IsDecimalOf(text, n) ==
    /\ text # <<>>
    /\ \A i \in 1..Len(text) : IsDigit(text[i])
    /\ Head(text) # "0"
    /\ ReadDigits(text, 0) = n

\* C8: the badge text is empty for 0 (nothing is drawn), the decimal numeral for 1
\* to 99, "99+" from 100 on, and the configured indicator for a negative or
\* non-numeric value
C8_BadgeText ==
    probe.pc = "done" =>
        LET value == current.value
            text == probe.bubble.text
        IN  /\ (value.t = "number" /\ value.n = 0) => probe.bubble = NoBubble
            /\ (value.t = "number" /\ value.n \in 1..99) => IsDecimalOf(text, value.n)
            /\ (value.t = "number" /\ value.n >= 100) => text = <<"9", "9", "+">>
            /\ (value.t # "number" \/ value.n < 0) => text = current.options.indicator

\* the value 100, drawn as "99+"
C8_Witness ==
    /\ probe.pc = "done"
    /\ current.value = Num(100)
    /\ probe.bubble.text = <<"9", "9", "+">>
    /\ probe.bubble.backgroundColor = "#424242"

\* C9: once set has populated current.bestFavicon and current.favicons, every step
\* other than a clear that restores the snapshot leaves both unchanged, and every
\* load a later set issues has the remembered best favicon as its source
C9_CacheStable ==
    [][(current.bestFavicon # null /\ current.favicons # nullList
            /\ ~(last'.op = "clear" /\ last'.restored))
        => /\ current'.bestFavicon = current.bestFavicon
           /\ current'.favicons = current.favicons
           /\ \A image \in BagToSet(pending') :
                  CopiesIn(image, pending') > CopiesIn(image, pending)
                      => image.src = current.bestFavicon]_vars

\* a set call after an install: the head's best icon is a badge, the remembered one
\* is still an icon of the page
C9_Witness ==
    /\ last.op = "set" /\ last.ret
    /\ Len(badges) >= 1
    /\ IsBadge(getBestFavicon)
    /\ current.bestFavicon > 0
    /\ \E image \in BagToSet(pending) : image.src = current.bestFavicon

\* C10: a set call made while the best favicon is remembered performs no scan of
\* the head and no selection
C10_NoRescan ==
    [][(last'.op = "set" /\ current.bestFavicon # null) => last'.scans = 0]_vars

\* the text a session value is drawn as
TextOf(value, indicator) == IF value = Num(5) THEN <<"5">> ELSE indicator

\* the image of the link created by the latest install
NewestImage == badges[Len(badges)]

\* C11 as stated: current.bestFavicon is set exactly when current.favicons is
\* non-empty and a render has completed and installed its image since the last clear
C11_BaseIffRendered ==
    (current.bestFavicon # null)
        <=> (current.favicons # nullList /\ current.favicons # <<>> /\ since.installed)

\* C11 as amended: current.bestFavicon is set exactly when current.favicons is
\* non-empty and a set call has returned true since the last clear
C11_BaseIffSetSucceeded ==
    (current.bestFavicon # null)
        <=> (current.favicons # nullList /\ current.favicons # <<>> /\ since.set)

\* the best favicon is remembered, its load is pending and nothing was installed yet
C11_Witness ==
    /\ current.bestFavicon # null
    /\ since.set /\ ~since.installed
    /\ badges = <<>>
    /\ pending # EmptyBag

\* C12: once a canvas exists, no call creates another one
C12_CanvasCreatedOnce ==
    [][canvas => ~last'.created]_vars

\* C13: the image a completed load installs shows the value its set call passed,
\* whatever current.value is by then
C13_InstallShowsOwnValue ==
    [][(last'.op = "onload" /\ last'.ret)
        => \E image \in BagToSet(pending) :
              /\ CopiesIn(image, pending') < CopiesIn(image, pending)
              /\ NewestImage'.base = image.src
              /\ image.value = Num(5) => NewestImage'.bubble.text = <<"5">>
              /\ image.value = False => NewestImage'.bubble.text \in { S_bang, S_query }]_vars

\* set(5) then set(false): the load of false completed first, the load of 5 last;
\* the installed icon shows "5", current.value is false and no load is pending
C13_Witness ==
    /\ last.op = "onload" /\ last.ret
    /\ Len(badges) = 2
    /\ badges[1].bubble.text # <<"5">>
    /\ badges[2].bubble.text = <<"5">>
    /\ getFavicons = <<NewestBadge>>
    /\ current.value = False
    /\ current.favicons # nullList
    /\ pending = EmptyBag

\* no 2D context can be obtained, or no link of the head qualifies
Unavailable == ~has2d \/ getFavicons = <<>>

\* C14: while the feature is unavailable, isAvailable and set return false, no
\* call starts a load or changes the head, and no load is pending that could
\* change it later
C14_UnavailableIsInert ==
    [][Unavailable
        => /\ pending = EmptyBag /\ badges = <<>> /\ head = Identity(Len(page))
           /\ ~last'.ret /\ pending' = pending /\ badges' = badges /\ head' = head]_vars

\* a set call that returned false on a page whose only link is no icon link
C14_Witness ==
    /\ last.op = "set" /\ ~last.ret
    /\ has2d
    /\ head # <<>>
    /\ getFavicons = <<>>

\* C15: a set call that returned true is eventually followed by an install whose
\* image shows the value of that call
C15_SetLeadsToInstall ==
    \A value \in SessionValues :
        (last.op = "set" /\ last.ret /\ current.value = value)
            ~> (/\ last.op = "onload" /\ last.ret
                /\ getFavicons = <<NewestBadge>>
                /\ NewestImage.bubble.text = TextOf(value, current.options.indicator))

\* an install that follows a clear: the load was pending across the clear
C15_Witness ==
    /\ last.op = "onload" /\ last.ret
    /\ since = [set |-> FALSE, installed |-> TRUE]
    /\ current.favicons = nullList
    /\ getFavicons = <<NewestBadge>>

\* C16: current.bestFavicon is null exactly when current.favicons is null, and when
\* both are set current.favicons is not empty and holds current.bestFavicon
C16_BaseInSnapshot ==
    /\ (current.bestFavicon = null) <=> (current.favicons = nullList)
    /\ current.favicons # nullList =>
           \E i \in 1..Len(current.favicons) : current.favicons[i] = current.bestFavicon

\* the remembered best favicon is the second of two remembered favicons, and the
\* head holds a badge instead
C16_Witness ==
    /\ Len(current.favicons) = 2
    /\ current.bestFavicon = current.favicons[2]
    /\ Len(badges) >= 1
    /\ getFavicons = <<NewestBadge>>

\* whether isAvailable is true on the page as loaded
OriginallyAvailable == has2d /\ BestFrom(OriginalIcons, 1, null, 0) # null

\* C17: on a page with a qualifying icon link and an obtainable 2D context the head
\* always keeps a qualifying icon link; isAvailable is in every state what it was
\* on the page as loaded, so once true it stays true; and isAvailable is true
\* whenever a snapshot exists
C17_StaysAvailable ==
    /\ (has2d /\ OriginalIcons # <<>>) => getFavicons # <<>>
    /\ isAvailable <=> OriginallyAvailable
    /\ current.favicons # nullList => isAvailable

\* isAvailable returned true on a head whose only icon link is an installed badge
C17_Witness ==
    /\ last.op = "isAvailable" /\ last.ret
    /\ Len(badges) >= 1
    /\ getFavicons = <<NewestBadge>>

\* C18: the bubble a completed load draws uses the options current.options holds
\* when the load completes
C18_OptionsAtCompletion ==
    [][(last'.op = "onload" /\ last'.ret)
        => /\ NewestImage'.bubble.backgroundColor = current.options.backgroundColor
           /\ NewestImage'.bubble.color = current.options.color
           /\ \A image \in BagToSet(pending) :
                  (CopiesIn(image, pending') < CopiesIn(image, pending) /\ image.value = False)
                      => NewestImage'.bubble.text = current.options.indicator]_vars

\* set(false) then set(5, {indicator: '?'}): the load of false completes and is
\* drawn with '?', while the load of 5 is still pending
C18_Witness ==
    /\ last.op = "onload" /\ last.ret
    /\ Len(badges) = 1
    /\ NewestImage.bubble.text = S_query
    /\ current.value = Num(5)
    /\ BagCardinality(pending) = 1
    /\ \A image \in BagToSet(pending) : image.value = Num(5)

\* C19: for a non-empty list of qualifying candidates the selection returns one of
\* them
C19_SomeCandidate ==
    (probe.pc = "done" /\ getFavicons # <<>>)
        => \E i \in 1..Len(getFavicons) : probe.best = getFavicons[i]

\* C20: clear leaves current.value and current.options unchanged, and an indicator
\* merged by a set call is never reset to the default
C20_ClearKeepsOptions ==
    /\ [][last'.op = "clear"
            => (current'.value = current.value /\ current'.options = current.options)]_vars
    /\ [][current.options.indicator = S_query => current'.options.indicator = S_query]_vars

\* a clear that restored the snapshot while the merged indicator '?' is in effect
C20_Witness ==
    /\ last.op = "clear" /\ last.restored
    /\ Len(badges) >= 1
    /\ current.options.indicator = S_query
    /\ current.value = False

=============================================================================
